---- MODULE Spec2Model ----
(***************************************************************************)
(* A model of the chat-record recovery engine of main.py: framing          *)
(* stripping, JSON decoding, the payload scanner, the record extractor     *)
(* with its deduplication, the per-entry loop of parse_har_file and the    *)
(* session clusterer.                                                      *)
(*                                                                         *)
(* A text (a Python str) is a sequence of one-character strings.  A JSON   *)
(* value is a record [k, v]: k is the kind ("null", "bool", "int", "str",  *)
(* "list", "dict") and v the content.  An integer is kept as its decimal   *)
(* digits, so that the microsecond epoch values keep their full width.     *)
(* An optional value (None or a value) is a sequence of length 0 or 1.     *)
(***************************************************************************)
EXTENDS Integers, Sequences, FiniteSets, TLC

VARIABLES
    entries,            \* parse_har_file: the log, a sequence of indices into HarEntries
    i,                  \* parse_har_file: number of entries already processed
    recovered_records,  \* the accumulating record collection
    pc,                 \* position of the running routine
    payload_json,       \* process_inner_payload: index (into Payloads) of the array last examined
    text,               \* strip_json_prefix: the input text
    once,               \* strip_json_prefix(text)
    twice,              \* strip_json_prefix(strip_json_prefix(text))
    records,            \* analyze_sessions: its argument (sorted in place)
    sessions,           \* analyze_sessions: the sessions closed so far
    current_session,    \* analyze_sessions: the session being filled
    last_ts,            \* analyze_sessions: timestamp of the previous record
    k,                  \* analyze_sessions: number of records already visited
    calls               \* number of calls of process_inner_payload made

vars == <<entries, i, recovered_records, pc, payload_json, text, once, twice,
          records, sessions, current_session, last_ts, k, calls>>

----------------------------------------------------------------------------
(* Python str operations *)

SetMin(S) == CHOOSE x \in S : \A y \in S : x <= y
SetMax(S) == CHOOSE x \in S : \A y \in S : x >= y

DigitChars == <<"0", "1", "2", "3", "4", "5", "6", "7", "8", "9">>
IsDigit(c) == \E d \in 1..10 : DigitChars[d] = c
DigitVal(c) == (CHOOSE d \in 1..10 : DigitChars[d] = c) - 1

\* the whitespace of str.strip(), str.isspace() and the regex class \s
PyWhitespace == {" ", "\n", "\t", "\r"}

StartsWithAt(s, pat, p) ==
    /\ p >= 1
    /\ p + Len(pat) - 1 <= Len(s)
    /\ \A j \in 1..Len(pat) : s[p + j - 1] = pat[j]

startswith(s, pat) == StartsWithAt(s, pat, 1)

endswith(s, pat) == StartsWithAt(s, pat, Len(s) - Len(pat) + 1)

\* the least position >= from where pat occurs in s, 0 when there is none
Find(s, pat, from) ==
    LET hits == {p \in from..(Len(s) - Len(pat) + 1) : StartsWithAt(s, pat, p)}
    IN  IF hits = {} THEN 0 ELSE SetMin(hits)

contains(s, pat) == Find(s, pat, 1) # 0

strip(s) ==
    LET solid == {p \in 1..Len(s) : s[p] \notin PyWhitespace}
    IN  IF solid = {} THEN <<>> ELSE SubSeq(s, SetMin(solid), SetMax(solid))

\* the first position >= p whose character is not in the class, Len(s)+1 when none
RunEnd(s, p, class) ==
    IF p > Len(s) THEN p
    ELSE CHOOSE q \in p..(Len(s) + 1) :
             /\ q = Len(s) + 1 \/ s[q] \notin class
             /\ \A h \in p..(q - 1) : s[h] \in class

DigitSet == {DigitChars[d] : d \in 1..10}

----------------------------------------------------------------------------
(* strip_json_prefix *)

ANTI_HIJACK == <<")", "]", "}", "'">>

\* re.search(r'^[0-9]+\s*([["{])', text): match.start(1), 0 when there is no match
LengthPrefixMatch(t) ==
    LET d == RunEnd(t, 1, DigitSet)
        b == RunEnd(t, d, PyWhitespace)
    IN  IF d > 1 /\ b <= Len(t) /\ t[b] \in {"[", "\"", "{"} THEN b ELSE 0

\* a faulty variant: the digit run alone is cut, the whitespace after it is kept
strip_json_prefix_keep_ws(t) ==
    LET t1 == IF startswith(t, ANTI_HIJACK) THEN SubSeq(t, 5, Len(t)) ELSE t
        t2 == strip(t1)
        m  == LengthPrefixMatch(t2)
    IN  IF m # 0 THEN SubSeq(t2, RunEnd(t2, 1, DigitSet), Len(t2)) ELSE t2

\* a faulty variant: the pattern asks for at least one whitespace (\s+) and no quote
strip_json_prefix_ws_plus(t) ==
    LET t1 == IF startswith(t, ANTI_HIJACK) THEN SubSeq(t, 5, Len(t)) ELSE t
        t2 == strip(t1)
        d  == RunEnd(t2, 1, DigitSet)
        b  == RunEnd(t2, d, PyWhitespace)
    IN  IF d > 1 /\ b > d /\ b <= Len(t2) /\ t2[b] \in {"[", "{"}
        THEN SubSeq(t2, b, Len(t2)) ELSE t2

strip_json_prefix(t) ==
    LET t1 == IF startswith(t, ANTI_HIJACK) THEN SubSeq(t, 5, Len(t)) ELSE t
        t2 == strip(t1)
        m  == LengthPrefixMatch(t2)
    IN  IF m # 0 THEN SubSeq(t2, m, Len(t2)) ELSE t2

----------------------------------------------------------------------------
(* json: the decoder behind json.loads and JSONDecoder.raw_decode *)

None == [k |-> "null", v |-> <<>>]
JBool(b) == [k |-> "bool", v |-> b]
JInt(digits) == [k |-> "int", v |-> digits]
JStr(chars) == [k |-> "str", v |-> chars]
JList(items) == [k |-> "list", v |-> items]
JDict(members) == [k |-> "dict", v |-> members]

JsonWhitespace == {" ", "\t", "\n", "\r"}

\* a decoding result: ok is FALSE for a JSONDecodeError; end is the position
\* after the value
Decoded(val, end) == [ok |-> TRUE, val |-> val, end |-> end]
JSONDecodeError == [ok |-> FALSE, val |-> None, end |-> 0]

SkipWs(s, p) == RunEnd(s, p, JsonWhitespace)

\* a dict keeps one value per key, at the place of the key's first insertion
DictSet(members, key, val) ==
    IF \E j \in 1..Len(members) : members[j].key = key
    THEN [j \in 1..Len(members) |->
             IF members[j].key = key THEN [key |-> key, val |-> val] ELSE members[j]]
    ELSE Append(members, [key |-> key, val |-> val])

\* the number of backslashes that stand right before position q, from p on
BackslashRun(s, p, q) ==
    IF q <= p \/ s[q - 1] # "\\" THEN 0
    ELSE CHOOSE r \in 1..(q - p) :
             /\ \A t \in 1..r : s[q - t] = "\\"
             /\ r = q - p \/ s[q - r - 1] # "\\"

\* the body of a string literal, from the character after the opening quote, to
\* the first quote that no backslash escapes.  A backslash after an even run of
\* backslashes opens an escape and the character after it is the escaped one.
\* The escapes \b, \f and \uXXXX occur in none of the texts decoded here and
\* are not told apart from an invalid escape.
scanstring(s, p) ==
    LET quotes == {q \in p..Len(s) : s[q] = "\"" /\ (BackslashRun(s, p, q) % 2) = 0}
        close  == SetMin(quotes)
        Escaped(h) == (BackslashRun(s, p, h) % 2) = 1
        Opens(h) == s[h] = "\\" /\ ~Escaped(h)
        Bad(h) == \/ Escaped(h) /\ s[h] \notin {"\"", "\\", "/", "n", "t", "r"}
                  \/ ~Escaped(h) /\ s[h] \in {"\n", "\t", "\r"}
        Char(h) == IF ~Escaped(h) THEN s[h]
                   ELSE IF s[h] = "n" THEN "\n"
                   ELSE IF s[h] = "t" THEN "\t"
                   ELSE IF s[h] = "r" THEN "\r"
                   ELSE s[h]
        cells == [j \in 1..(close - p) |->
                     [keep |-> ~Opens(p + j - 1), c |-> Char(p + j - 1)]]
        Kept(cell) == cell.keep
        kept == SelectSeq(cells, Kept)
    IN  IF quotes = {} THEN JSONDecodeError
        ELSE IF \E h \in p..(close - 1) : Bad(h) THEN JSONDecodeError
        ELSE Decoded(JStr([j \in 1..Len(kept) |-> kept[j].c]), close + 1)

\* an integer literal: 0, or a digit run that does not start with 0
ScanNumber(s, p) ==
    LET e == IF s[p] = "0" THEN p + 1 ELSE RunEnd(s, p, DigitSet)
    IN  Decoded(JInt(SubSeq(s, p, e - 1)), e)

RECURSIVE scan_once(_, _), JSONArray(_, _, _), JSONObject(_, _, _)

\* one JSON value starting exactly at p
scan_once(s, p) ==
    IF p > Len(s) THEN JSONDecodeError
    ELSE IF s[p] = "\"" THEN scanstring(s, p + 1)
    ELSE IF s[p] = "[" THEN
        LET q == SkipWs(s, p + 1)
        IN  IF q <= Len(s) /\ s[q] = "]" THEN Decoded(JList(<<>>), q + 1)
            ELSE JSONArray(s, q, <<>>)
    ELSE IF s[p] = "{" THEN
        LET q == SkipWs(s, p + 1)
        IN  IF q <= Len(s) /\ s[q] = "}" THEN Decoded(JDict(<<>>), q + 1)
            ELSE JSONObject(s, q, <<>>)
    ELSE IF StartsWithAt(s, <<"n", "u", "l", "l">>, p) THEN Decoded(None, p + 4)
    ELSE IF StartsWithAt(s, <<"t", "r", "u", "e">>, p) THEN Decoded(JBool(TRUE), p + 4)
    ELSE IF StartsWithAt(s, <<"f", "a", "l", "s", "e">>, p) THEN Decoded(JBool(FALSE), p + 5)
    ELSE IF IsDigit(s[p]) THEN ScanNumber(s, p)
    ELSE JSONDecodeError

\* the elements of an array, from the start of an element
JSONArray(s, p, acc) ==
    LET r == scan_once(s, p)
        q == SkipWs(s, r.end)
    IN  IF ~r.ok \/ q > Len(s) THEN JSONDecodeError
        ELSE IF s[q] = "]" THEN Decoded(JList(Append(acc, r.val)), q + 1)
        ELSE IF s[q] = "," THEN JSONArray(s, SkipWs(s, q + 1), Append(acc, r.val))
        ELSE JSONDecodeError

\* the members of an object, from the start of a key
JSONObject(s, p, acc) ==
    IF p > Len(s) \/ s[p] # "\"" THEN JSONDecodeError
    ELSE
    LET key == scanstring(s, p + 1)
        c   == SkipWs(s, key.end)
    IN  IF ~key.ok \/ c > Len(s) \/ s[c] # ":" THEN JSONDecodeError
        ELSE
        LET r == scan_once(s, SkipWs(s, c + 1))
            q == SkipWs(s, r.end)
        IN  IF ~r.ok \/ q > Len(s) THEN JSONDecodeError
            ELSE IF s[q] = "}" THEN Decoded(JDict(DictSet(acc, key.val.v, r.val)), q + 1)
            ELSE IF s[q] = "," THEN
                JSONObject(s, SkipWs(s, q + 1), DictSet(acc, key.val.v, r.val))
            ELSE JSONDecodeError

\* decoder.raw_decode(s, idx): the value at idx (1-based here) and where it ends
raw_decode(s, idx) == scan_once(s, idx)

\* json.loads(s): one value with only whitespace around it
json_loads(s) ==
    LET r == scan_once(s, SkipWs(s, 1))
    IN  IF r.ok /\ SkipWs(s, r.end) = Len(s) + 1 THEN r ELSE JSONDecodeError

----------------------------------------------------------------------------
(* datetime *)

\* a decimal digit sequence without leading zeros is greater than another
LexGreater(a, b) ==
    \E j \in 1..Len(a) :
        /\ \A h \in 1..(j - 1) : a[h] = b[h]
        /\ DigitVal(a[j]) > DigitVal(b[j])

IntGreater(a, b) == Len(a) > Len(b) \/ (Len(a) = Len(b) /\ LexGreater(a, b))

MICROSECOND_FLOOR == <<"1", "6", "0", "0", "0", "0", "0", "0", "0", "0", "0", "0", "0", "0", "0", "0">>
MILLISECOND_FLOOR == <<"1", "6", "0", "0", "0", "0", "0", "0", "0", "0", "0", "0", "0">>

\* the last second of year 9999: datetime has no later value
DATETIME_MAX_SECOND == <<"2", "5", "3", "4", "0", "2", "3", "0", "0", "7", "9", "9">>

Zeros(n) == [j \in 1..n |-> "0"]

\* datetime.fromtimestamp(item / 10^scale), item given by its digits (more than
\* scale of them): a datetime [second, microsecond], the second as digits and
\* the microsecond as six digits, or the ValueError / OverflowError of a value
\* past year 9999.  item is below 2^53 for every datetime, so the float
\* quotient is rounded back to the exact microsecond.
fromtimestamp(digits, scale) ==
    LET second == SubSeq(digits, 1, Len(digits) - scale)
        frac   == SubSeq(digits, Len(digits) - scale + 1, Len(digits))
    IN  IF IntGreater(second, DATETIME_MAX_SECOND)
        THEN [kind |-> "raise", second |-> <<>>, microsecond |-> <<>>]
        ELSE [kind |-> "datetime", second |-> second,
              microsecond |-> frac \o Zeros(6 - scale)]

NoTimestamp == [kind |-> "none", second |-> <<>>, microsecond |-> <<>>]

\* datetime.isoformat(): the calendar fields are rendered here as one
\* fixed-width field, the count of seconds on twelve digits (the real fields
\* are fixed-width too, so the order of the strings is the order of the
\* instants); as in Python, the fraction is left out when it is zero
isoformat(dt) ==
    Zeros(12 - Len(dt.second)) \o dt.second
       \o (IF dt.microsecond = Zeros(6) THEN <<>> ELSE <<".">> \o dt.microsecond)

----------------------------------------------------------------------------
(* the record extractor *)

PROMPTED == <<"P", "r", "o", "m", "p", "t", "e", "d">>

\* a faulty variant: the last integer above the floors is taken, not the first
extract_timestamp_last(record_list) ==
    LET hits == {j \in 1..Len(record_list) :
                    /\ record_list[j].k = "int"
                    /\ IntGreater(record_list[j].v, MILLISECOND_FLOOR)}
    IN  IF hits = {} THEN NoTimestamp
        ELSE LET item == record_list[SetMax(hits)]
             IN  IF IntGreater(item.v, MICROSECOND_FLOOR)
                 THEN fromtimestamp(item.v, 6)
                 ELSE fromtimestamp(item.v, 3)

\* the first integer above a floor decides: above 1.6e15 it counts microseconds,
\* above 1.6e12 milliseconds (a bool is an int of 0 or 1 and never qualifies)
extract_timestamp(record_list) ==
    LET hits == {j \in 1..Len(record_list) :
                    /\ record_list[j].k = "int"
                    /\ IntGreater(record_list[j].v, MILLISECOND_FLOOR)}
    IN  IF hits = {} THEN NoTimestamp
        ELSE LET item == record_list[SetMin(hits)]
             IN  IF IntGreater(item.v, MICROSECOND_FLOOR)
                 THEN fromtimestamp(item.v, 6)
                 ELSE fromtimestamp(item.v, 3)

\* the element is a list of three or more whose third is "Prompted" and first a str
IsPromptItem(item) ==
    /\ item.k = "list"
    /\ Len(item.v) >= 3
    /\ item.v[3].k = "str"
    /\ item.v[3].v = PROMPTED
    /\ item.v[1].k = "str"

\* the first such element's first element, or None
extract_prompt(record_list) ==
    LET hits == {j \in 1..Len(record_list) : IsPromptItem(record_list[j])}
    IN  IF hits = {} THEN <<>> ELSE <<record_list[SetMin(hits)].v[1].v>>

IsResponseItem(item) ==
    /\ item.k = "list"
    /\ Len(item.v) > 0
    /\ item.v[1].k = "list"
    /\ Len(item.v[1].v) > 0
    /\ item.v[1].v[1].k = "list"
    /\ Len(item.v[1].v[1].v) > 1
    /\ item.v[1].v[1].v[2].k = "str"
    /\ contains(item.v[1].v[1].v[2].v, <<"<">>)

\* scanning from the end, the first element of the shape [[[_, "...<...", ...]]]
extract_response(record_list) ==
    LET hits == {j \in 1..Len(record_list) : IsResponseItem(record_list[j])}
    IN  IF hits = {} THEN <<>> ELSE <<record_list[SetMax(hits)].v[1].v[1].v[2]>>

\* `if prompt:` holds for a str that is not empty
Truthy(opt) == opt # <<>> /\ opt[1] # <<>>

\* a faulty variant: nothing is ever taken for a duplicate
is_duplicate_never(recs, record) == FALSE

is_duplicate(recs, record) ==
    \E j \in 1..Len(recs) :
        recs[j].date = record.date /\ recs[j].prompt = record.prompt

\* the record built from an array that matched and has a timestamp.  response
\* holds the HTML handed to the markdown renderer md(), id_a and id_b the
\* elements that str() renders: both renderings belong to the libraries
MakeRecord(payload, prompt, timestamp, metadata) ==
    [date     |-> isoformat(timestamp),
     prompt   |-> strip(prompt),
     response |-> extract_response(payload),
     metadata |-> metadata,
     id_a     |-> IF Len(payload) > 5 THEN <<payload[6]>> ELSE <<>>,
     id_b     |-> IF Len(payload) > 6 THEN <<payload[7]>> ELSE <<>>]

\* what a call hands back: the collection, and whether an exception left it
Returned(recs) == [recs |-> recs, raised |-> FALSE]
Raised(recs) == [recs |-> recs, raised |-> TRUE]

\* `if not is_duplicate: recovered_records.append(record)`
Retain(recs, record) ==
    IF is_duplicate(recs, record) THEN Returned(recs) ELSE Returned(Append(recs, record))

\* `if timestamp:` and the record built under it; the exception of
\* fromtimestamp leaves the call before anything is built
RecordAt(payload, prompt, timestamp, recs, metadata) ==
    IF timestamp.kind = "raise" THEN Raised(recs)
    ELSE IF timestamp.kind = "none" THEN Returned(recs)
    ELSE Retain(recs, MakeRecord(payload, prompt, timestamp, metadata))

\* the array matched the signature: at most one record, no descent
ExamineRecord(payload, prompt, recs, metadata) ==
    RecordAt(payload, prompt, extract_timestamp(payload), recs, metadata)

RECURSIVE process_inner_payload(_, _, _), ProcessItems(_, _, _, _), ProcessRest(_, _, _, _)

\* for item in payload_json: process_inner_payload(item, ...), until one raises
ProcessItems(items, j, recs, metadata) ==
    IF j > Len(items) THEN Returned(recs)
    ELSE ProcessRest(items, j, process_inner_payload(items[j], recs, metadata), metadata)

\* r is what the call on element j handed back
ProcessRest(items, j, r, metadata) ==
    IF r.raised THEN r ELSE ProcessItems(items, j + 1, r.recs, metadata)

\* a faulty variant: the elements of a matched array are searched too
process_inner_payload_descend(payload, recs, metadata) ==
    IF payload.k # "list" THEN Returned(recs)
    ELSE ProcessRest(payload.v, 0,
                     IF Truthy(extract_prompt(payload.v))
                     THEN ExamineRecord(payload.v, extract_prompt(payload.v)[1],
                                        recs, metadata)
                     ELSE Returned(recs),
                     metadata)

process_inner_payload(payload, recs, metadata) ==
    IF payload.k # "list" THEN Returned(recs)
    ELSE IF Truthy(extract_prompt(payload.v))
         THEN ExamineRecord(payload.v, extract_prompt(payload.v)[1], recs, metadata)
         ELSE ProcessItems(payload.v, 1, recs, metadata)

----------------------------------------------------------------------------
(* the payload scanner *)

LooksLikeNestedArray(s) ==
    startswith(strip(s), <<"[", "[">>) /\ endswith(strip(s), <<"]">>)

RECURSIVE scan_for_nested_data(_, _, _), ScanList(_, _, _, _), ScanValues(_, _, _, _)
RECURSIVE ScanListRest(_, _, _, _), ScanValuesRest(_, _, _, _)

\* a faulty variant: an element that is an array is handed to the extractor too
ScanElement_direct(item, recs, metadata) ==
    IF item.k = "str" THEN
        IF LooksLikeNestedArray(item.v) /\ json_loads(item.v).ok
        THEN process_inner_payload(json_loads(item.v).val, recs, metadata)
        ELSE Returned(recs)
    ELSE LET r == process_inner_payload(item, recs, metadata)
         IN  IF r.raised THEN r ELSE scan_for_nested_data(item, r.recs, metadata)

\* a faulty variant: the scan goes on inside the decoded fragment
ScanElement_deep(item, recs, metadata) ==
    IF item.k = "str" THEN
        IF LooksLikeNestedArray(item.v) /\ json_loads(item.v).ok
        THEN LET r == process_inner_payload(json_loads(item.v).val, recs, metadata)
             IN  IF r.raised THEN r
                 ELSE scan_for_nested_data(json_loads(item.v).val, r.recs, metadata)
        ELSE Returned(recs)
    ELSE scan_for_nested_data(item, recs, metadata)

\* one element of a list: a str that looks like a nested array is decoded and
\* handed to the extractor (a JSONDecodeError is passed over); a str is never
\* scanned further; any other element is scanned
ScanElement(item, recs, metadata) ==
    IF item.k = "str" THEN
        IF LooksLikeNestedArray(item.v) /\ json_loads(item.v).ok
        THEN process_inner_payload(json_loads(item.v).val, recs, metadata)
        ELSE Returned(recs)
    ELSE scan_for_nested_data(item, recs, metadata)

\* for item in data
ScanList(items, j, recs, metadata) ==
    IF j > Len(items) THEN Returned(recs)
    ELSE ScanListRest(items, j, ScanElement(items[j], recs, metadata), metadata)

\* r is what element j handed back: an exception ends the loop
ScanListRest(items, j, r, metadata) ==
    IF r.raised THEN r ELSE ScanList(items, j + 1, r.recs, metadata)

\* for value in data.values()
ScanValues(members, j, recs, metadata) ==
    IF j > Len(members) THEN Returned(recs)
    ELSE ScanValuesRest(members, j,
                        scan_for_nested_data(members[j].val, recs, metadata), metadata)

ScanValuesRest(members, j, r, metadata) ==
    IF r.raised THEN r ELSE ScanValues(members, j + 1, r.recs, metadata)

scan_for_nested_data(data, recs, metadata) ==
    IF data.k = "list" THEN ScanList(data.v, 1, recs, metadata)
    ELSE IF data.k = "dict" THEN ScanValues(data.v, 1, recs, metadata)
    ELSE Returned(recs)

----------------------------------------------------------------------------
(* decode_har_entry_content *)

B64_ALPHABET ==
    <<"A", "B", "C", "D", "E", "F", "G", "H", "I", "J", "K", "L", "M", "N", "O", "P", "Q", "R",
      "S", "T", "U", "V", "W", "X", "Y", "Z", "a", "b", "c", "d", "e", "f", "g", "h", "i", "j",
      "k", "l", "m", "n", "o", "p", "q", "r", "s", "t", "u", "v", "w", "x", "y", "z", "0", "1",
      "2", "3", "4", "5", "6", "7", "8", "9", "+", "/">>

\* the characters of the codes 32 to 95
ASCII_32_95 ==
    <<" ", "!", "\"", "#", "$", "%", "&", "'", "(", ")", "*", "+", ",", "-", ".", "/", "0", "1",
      "2", "3", "4", "5", "6", "7", "8", "9", ":", ";", "<", "=", ">", "?", "@", "A", "B", "C",
      "D", "E", "F", "G", "H", "I", "J", "K", "L", "M", "N", "O", "P", "Q", "R", "S", "T", "U",
      "V", "W", "X", "Y", "Z", "[", "\\", "]", "^", "_">>

\* the characters of the codes 97 to 126
ASCII_97_126 ==
    <<"a", "b", "c", "d", "e", "f", "g", "h", "i", "j", "k", "l", "m", "n", "o", "p", "q", "r",
      "s", "t", "u", "v", "w", "x", "y", "z", "{", "|", "}", "~">>

IsB64(c) == \E j \in 1..64 : B64_ALPHABET[j] = c
B64Value(c) == (CHOOSE j \in 1..64 : B64_ALPHABET[j] = c) - 1

\* binascii.a2b_base64 as b64decode calls it (not strict).  Characters outside
\* the alphabet are passed over.  A data character is the n-th one when n - 1
\* came before it, and n mod 4 is the place in its quad.  Padding ends the
\* data at the first "=" that, with the "=" right before it, completes a quad
\* of which two or three characters are there; a quad left open at the end of
\* the text is an error.  Three bytes come from every four data characters:
\*   v1 * 4 + (v2 \div 16),  (v2 % 16) * 16 + (v3 \div 4),  (v3 % 4) * 64 + v4.
\* The result is [ok, bytes].
b64decode(s) ==
    LET IsSignificant(c) == IsB64(c) \/ c = "="
        t == SelectSeq(s, IsSignificant)
        DataBefore(h) == Cardinality({g \in 1..(h - 1) : t[g] # "="})
        PadRun(h) == CHOOSE r \in 1..h :
                         /\ \A g \in 0..(r - 1) : t[h - g] = "="
                         /\ r = h \/ t[h - r] # "="
        stops == {h \in 1..Len(t) :
                     /\ t[h] = "="
                     /\ (DataBefore(h) % 4) >= 2
                     /\ (DataBefore(h) % 4) + PadRun(h) >= 4}
        last == IF stops = {} THEN Len(t) ELSE SetMin(stops) - 1
        data == SelectSeq(SubSeq(t, 1, last), IsB64)
        n == Len(data)
        V(j) == B64Value(data[j])
        Byte(b) ==
            LET q == 4 * ((b - 1) \div 3)
            IN  IF (b - 1) % 3 = 0 THEN V(q + 1) * 4 + (V(q + 2) \div 16)
                ELSE IF (b - 1) % 3 = 1 THEN (V(q + 2) % 16) * 16 + (V(q + 3) \div 4)
                ELSE (V(q + 3) % 4) * 64 + V(q + 4)
        count == 3 * (n \div 4) + (IF n % 4 = 0 THEN 0 ELSE (n % 4) - 1)
    IN  IF stops = {} /\ n % 4 # 0 THEN [ok |-> FALSE, bytes |-> <<>>]
        ELSE [ok |-> TRUE, bytes |-> [b \in 1..count |-> Byte(b)]]

\* bytes.decode('utf-8', errors='ignore') on the codes this model has
\* characters for; any other byte is dropped (TLA+ has no string for code 96)
utf8_decode(bytes) ==
    LET HasChar(b) == (b >= 32 /\ b <= 95) \/ (b >= 97 /\ b <= 126) \/ b \in {9, 10, 13}
        kept == SelectSeq(bytes, HasChar)
    IN  [j \in 1..Len(kept) |->
            IF kept[j] >= 32 /\ kept[j] <= 95 THEN ASCII_32_95[kept[j] - 31]
            ELSE IF kept[j] >= 97 THEN ASCII_97_126[kept[j] - 96]
            ELSE IF kept[j] = 10 THEN "\n"
            ELSE IF kept[j] = 9 THEN "\t"
            ELSE "\r"]

\* content is [mimeType, encoding, text]; text is optional.  The result is the
\* optional body text.
decode_har_entry_content(content) ==
    IF content.encoding = "base64" /\ Truthy(content.text)
    THEN LET d == b64decode(content.text[1])
         IN  IF d.ok THEN <<utf8_decode(d.bytes)>> ELSE <<>>
    ELSE content.text

----------------------------------------------------------------------------
(* extract_json_from_html *)

APPLICATION_JSON ==
    <<"a", "p", "p", "l", "i", "c", "a", "t", "i", "o", "n", "/", "j", "s", "o", "n">>

TEXT_JAVASCRIPT ==
    <<"t", "e", "x", "t", "/", "j", "a", "v", "a", "s", "c", "r", "i", "p", "t">>

TEXT_HTML ==
    <<"t", "e", "x", "t", "/", "h", "t", "m", "l">>

AF_INIT_DATA_CALLBACK ==
    <<"A", "F", "_", "i", "n", "i", "t", "D", "a", "t", "a", "C", "a", "l", "l", "b", "a", "c",
      "k">>

SCRIPT_OPEN ==
    <<"<", "s", "c", "r", "i", "p", "t", ">">>

SCRIPT_CLOSE ==
    <<"<", "/", "s", "c", "r", "i", "p", "t", ">">>

DATA ==
    <<"d", "a", "t", "a">>

MIME_JSON ==
    <<"a", "p", "p", "l", "i", "c", "a", "t", "i", "o", "n", "/", "j", "s", "o", "n", ";", " ",
      "c", "h", "a", "r", "s", "e", "t", "=", "u", "t", "f", "-", "8">>

MIME_JS ==
    <<"t", "e", "x", "t", "/", "j", "a", "v", "a", "s", "c", "r", "i", "p", "t">>

MIME_HTML ==
    <<"t", "e", "x", "t", "/", "h", "t", "m", "l", ";", " ", "c", "h", "a", "r", "s", "e", "t",
      "=", "u", "t", "f", "-", "8">>

MIME_PNG ==
    <<"i", "m", "a", "g", "e", "/", "p", "n", "g">>

HI ==
    <<"H", "i">>

YO ==
    <<"Y", "o">>

HELLO_THERE ==
    <<"H", "e", "l", "l", "o", " ", "t", "h", "e", "r", "e">>

DEEP ==
    <<"D", "e", "e", "p">>

LATE ==
    <<"L", "a", "t", "e">>

\* BeautifulSoup(html, 'html.parser').find_all('script'), each script's string:
\* the texts between <script> and </script>
RECURSIVE find_all_script(_, _)
find_all_script(html, from) ==
    LET a == Find(html, SCRIPT_OPEN, from)
        b == Find(html, SCRIPT_CLOSE, a + Len(SCRIPT_OPEN))
    IN  IF a = 0 THEN <<>>
        ELSE IF b = 0 THEN <<SubSeq(html, a + Len(SCRIPT_OPEN), Len(html))>>
        ELSE <<SubSeq(html, a + Len(SCRIPT_OPEN), b - 1)>>
                 \o find_all_script(html, b + Len(SCRIPT_CLOSE))

\* re.search(r'data\s*:\s*(\[.*)', s, re.DOTALL): match.start(1), 0 for no match
DataMatch(s) ==
    LET BracketAfter(p) ==
            LET c == RunEnd(s, p + Len(DATA), PyWhitespace)
                b == RunEnd(s, c + 1, PyWhitespace)
            IN  IF c <= Len(s) /\ s[c] = ":" /\ b <= Len(s) /\ s[b] = "[" THEN b ELSE 0
        hits == {p \in 1..Len(s) : StartsWithAt(s, DATA, p) /\ BracketAfter(p) # 0}
    IN  IF hits = {} THEN 0 ELSE BracketAfter(SetMin(hits))

\* the scripts in order; a JSONDecodeError passes to the next script, any other
\* exception ends the whole routine, which absorbs it
RECURSIVE ExtractScripts(_, _, _, _)
ExtractScripts(scripts, j, recs, metadata) ==
    IF j > Len(scripts) THEN recs
    ELSE LET s == scripts[j]
             m == DataMatch(s)
             d == raw_decode(SubSeq(s, m, Len(s)), 1)
             r == process_inner_payload(d.val, recs, metadata)
         IN  IF s # <<>> /\ contains(s, AF_INIT_DATA_CALLBACK) /\ m # 0 /\ d.ok
             THEN IF r.raised THEN r.recs
                  ELSE ExtractScripts(scripts, j + 1, r.recs, metadata)
             ELSE ExtractScripts(scripts, j + 1, recs, metadata)

extract_json_from_html(html_content, recs, metadata) ==
    ExtractScripts(find_all_script(html_content, 1), 1, recs, metadata)

----------------------------------------------------------------------------
(* the transactions the log is drawn from *)

\* the record carried directly in the document
\* ')]}\'\n23\n[["irrelevant", [["Hello there", true, "Prompted"], 1700000000000000]]]'
BODY_DIRECT ==
    <<")", "]", "}", "'", "\n", "2", "3", "\n", "[", "[", "\"", "i", "r", "r", "e", "l", "e", "v",
      "a", "n", "t", "\"", ",", " ", "[", "[", "\"", "H", "e", "l", "l", "o", " ", "t", "h", "e",
      "r", "e", "\"", ",", " ", "t", "r", "u", "e", ",", " ", "\"", "P", "r", "o", "m", "p", "t",
      "e", "d", "\"", "]", ",", " ", "1", "7", "0", "0", "0", "0", "0", "0", "0", "0", "0", "0",
      "0", "0", "0", "0", "]", "]", "]">>

\* the same record carried as a stringified fragment
\* ')]}\'\n23\n[["irrelevant", "[[[\\"Hello there\\", true, \\"Prompted\\"], 1700000000000000]]"]]'
BODY_STRINGIFIED ==
    <<")", "]", "}", "'", "\n", "2", "3", "\n", "[", "[", "\"", "i", "r", "r", "e", "l", "e", "v",
      "a", "n", "t", "\"", ",", " ", "\"", "[", "[", "[", "\\", "\"", "H", "e", "l", "l", "o", " ",
      "t", "h", "e", "r", "e", "\\", "\"", ",", " ", "t", "r", "u", "e", ",", " ", "\\", "\"", "P",
      "r", "o", "m", "p", "t", "e", "d", "\\", "\"", "]", ",", " ", "1", "7", "0", "0", "0", "0",
      "0", "0", "0", "0", "0", "0", "0", "0", "0", "0", "]", "]", "\"", "]", "]">>

\* a fragment stringified inside a stringified fragment
\* '[["[[\\"[[[\\\\\\"Deep\\\\\\", true, \\\\\\"Prompted\\\\\\"], 1700000000000005]]\\"]]"]]'
BODY_TWO_LEVEL ==
    <<"[", "[", "\"", "[", "[", "\\", "\"", "[", "[", "[", "\\", "\\", "\\", "\"", "D", "e", "e", "p",
      "\\", "\\", "\\", "\"", ",", " ", "t", "r", "u", "e", ",", " ", "\\", "\\", "\\", "\"", "P", "r",
      "o", "m", "p", "t", "e", "d", "\\", "\\", "\\", "\"", "]", ",", " ", "1", "7", "0", "0", "0",
      "0", "0", "0", "0", "0", "0", "0", "0", "0", "0", "5", "]", "]", "\\", "\"", "]", "]", "\"",
      "]", "]">>

\* no JSON document
\* '[["oops", '
BODY_INVALID ==
    <<"[", "[", "\"", "o", "o", "p", "s", "\"", ",", " ">>

\* a fragment whose integer is past year 9999
\* '["[[[\\"Big\\", true, \\"Prompted\\"], 1000000000000000000]]"]'
BODY_HUGE ==
    <<"[", "\"", "[", "[", "[", "\\", "\"", "B", "i", "g", "\\", "\"", ",", " ", "t", "r", "u", "e",
      ",", " ", "\\", "\"", "P", "r", "o", "m", "p", "t", "e", "d", "\\", "\"", "]", ",", " ", "1",
      "0", "0", "0", "0", "0", "0", "0", "0", "0", "0", "0", "0", "0", "0", "0", "0", "0", "0",
      "]", "]", "\"", "]">>

\* a bootstrap block with the record of BODY_STRINGIFIED
\* '<p>x</p><script>AF_initDataCallback({key: "ds:1", data:[[["Hello there", true, "Prompted"], 170
\* 0000000000000]]});</script>'
BODY_HTML ==
    <<"<", "p", ">", "x", "<", "/", "p", ">", "<", "s", "c", "r", "i", "p", "t", ">", "A", "F",
      "_", "i", "n", "i", "t", "D", "a", "t", "a", "C", "a", "l", "l", "b", "a", "c", "k", "(",
      "{", "k", "e", "y", ":", " ", "\"", "d", "s", ":", "1", "\"", ",", " ", "d", "a", "t", "a",
      ":", "[", "[", "[", "\"", "H", "e", "l", "l", "o", " ", "t", "h", "e", "r", "e", "\"", ",",
      " ", "t", "r", "u", "e", ",", " ", "\"", "P", "r", "o", "m", "p", "t", "e", "d", "\"", "]",
      ",", " ", "1", "7", "0", "0", "0", "0", "0", "0", "0", "0", "0", "0", "0", "0", "0", "0",
      "]", "]", "}", ")", ";", "<", "/", "s", "c", "r", "i", "p", "t", ">">>

\* two framed documents, then a broken one
\* ')]}\'\n\n12\n["[[[\\"One\\", true, \\"Prompted\\"], 1700007200000000]]"]\n34\n[{"x": ["[[[\\"Tw
\* o\\", true, \\"Prompted\\"], 1700000000123]]"]}]\n[oops'
BODY_STREAM ==
    <<")", "]", "}", "'", "\n", "\n", "1", "2", "\n", "[", "\"", "[", "[", "[", "\\", "\"", "O", "n",
      "e", "\\", "\"", ",", " ", "t", "r", "u", "e", ",", " ", "\\", "\"", "P", "r", "o", "m", "p",
      "t", "e", "d", "\\", "\"", "]", ",", " ", "1", "7", "0", "0", "0", "0", "7", "2", "0", "0",
      "0", "0", "0", "0", "0", "0", "]", "]", "\"", "]", "\n", "3", "4", "\n", "[", "{", "\"", "x",
      "\"", ":", " ", "[", "\"", "[", "[", "[", "\\", "\"", "T", "w", "o", "\\", "\"", ",", " ", "t",
      "r", "u", "e", ",", " ", "\\", "\"", "P", "r", "o", "m", "p", "t", "e", "d", "\\", "\"", "]",
      ",", " ", "1", "7", "0", "0", "0", "0", "0", "0", "0", "0", "1", "2", "3", "]", "]", "\"",
      "]", "}", "]", "\n", "[", "o", "o", "p", "s">>

\* base64 of ["[[[\"Six\", true, \"Prompted\"], 1700000000000000]]"]
\* 'WyJbW1tcIlNpeFwiLCB0cnVlLCBcIlByb21wdGVkXCJdLCAxNzAwMDAwMDAwMDAwMDAwXV0iXQ=='
BODY_BASE64 ==
    <<"W", "y", "J", "b", "W", "1", "t", "c", "I", "l", "N", "p", "e", "F", "w", "i", "L", "C",
      "B", "0", "c", "n", "V", "l", "L", "C", "B", "c", "I", "l", "B", "y", "b", "2", "1", "w",
      "d", "G", "V", "k", "X", "C", "J", "d", "L", "C", "A", "x", "N", "z", "A", "w", "M", "D",
      "A", "w", "M", "D", "A", "w", "M", "D", "A", "w", "M", "D", "A", "w", "X", "V", "0", "i",
      "X", "Q", "=", "=">>

\* base64 that cannot be decoded
\* 'W1tbIkh'
BODY_BAD_BASE64 ==
    <<"W", "1", "t", "b", "I", "k", "h">>

\* a block whose second record has an integer past year 9999, then a second block
\* '<script>var AF_initDataCallback; data: [[["Hi", true, "Prompted"], 1700000000000009], [["Big", 
\* true, "Prompted"], 1000000000000000000], [["Yo", true, "Prompted"], 1700000000000000]]</script><
\* script>AF_initDataCallback({data:[[["Late", true, "Prompted"], 1700000000000000]]});</script>'
BODY_HTML_HUGE ==
    <<"<", "s", "c", "r", "i", "p", "t", ">", "v", "a", "r", " ", "A", "F", "_", "i", "n", "i",
      "t", "D", "a", "t", "a", "C", "a", "l", "l", "b", "a", "c", "k", ";", " ", "d", "a", "t",
      "a", ":", " ", "[", "[", "[", "\"", "H", "i", "\"", ",", " ", "t", "r", "u", "e", ",", " ",
      "\"", "P", "r", "o", "m", "p", "t", "e", "d", "\"", "]", ",", " ", "1", "7", "0", "0", "0",
      "0", "0", "0", "0", "0", "0", "0", "0", "0", "0", "9", "]", ",", " ", "[", "[", "\"", "B",
      "i", "g", "\"", ",", " ", "t", "r", "u", "e", ",", " ", "\"", "P", "r", "o", "m", "p", "t",
      "e", "d", "\"", "]", ",", " ", "1", "0", "0", "0", "0", "0", "0", "0", "0", "0", "0", "0",
      "0", "0", "0", "0", "0", "0", "0", "]", ",", " ", "[", "[", "\"", "Y", "o", "\"", ",", " ",
      "t", "r", "u", "e", ",", " ", "\"", "P", "r", "o", "m", "p", "t", "e", "d", "\"", "]", ",",
      " ", "1", "7", "0", "0", "0", "0", "0", "0", "0", "0", "0", "0", "0", "0", "0", "0", "]",
      "]", "<", "/", "s", "c", "r", "i", "p", "t", ">", "<", "s", "c", "r", "i", "p", "t", ">",
      "A", "F", "_", "i", "n", "i", "t", "D", "a", "t", "a", "C", "a", "l", "l", "b", "a", "c",
      "k", "(", "{", "d", "a", "t", "a", ":", "[", "[", "[", "\"", "L", "a", "t", "e", "\"", ",",
      " ", "t", "r", "u", "e", ",", " ", "\"", "P", "r", "o", "m", "p", "t", "e", "d", "\"", "]",
      ",", " ", "1", "7", "0", "0", "0", "0", "0", "0", "0", "0", "0", "0", "0", "0", "0", "0",
      "]", "]", "}", ")", ";", "<", "/", "s", "c", "r", "i", "p", "t", ">">>

\* a fragment twice, a broken fragment, a blank prompt
\* '["[[[\\"Hello there\\", true, \\"Prompted\\"], 1700000000000000]]", "[[broken]", "[[[\\"  \\", 
\* true, \\"Prompted\\"], 1700000000000003]]", "[[[\\"Hello there\\", true, \\"Prompted\\"], 170000
\* 0000000000]]"]'
BODY_REPEATED ==
    <<"[", "\"", "[", "[", "[", "\\", "\"", "H", "e", "l", "l", "o", " ", "t", "h", "e", "r", "e",
      "\\", "\"", ",", " ", "t", "r", "u", "e", ",", " ", "\\", "\"", "P", "r", "o", "m", "p", "t",
      "e", "d", "\\", "\"", "]", ",", " ", "1", "7", "0", "0", "0", "0", "0", "0", "0", "0", "0",
      "0", "0", "0", "0", "0", "]", "]", "\"", ",", " ", "\"", "[", "[", "b", "r", "o", "k", "e",
      "n", "]", "\"", ",", " ", "\"", "[", "[", "[", "\\", "\"", " ", " ", "\\", "\"", ",", " ", "t",
      "r", "u", "e", ",", " ", "\\", "\"", "P", "r", "o", "m", "p", "t", "e", "d", "\\", "\"", "]",
      ",", " ", "1", "7", "0", "0", "0", "0", "0", "0", "0", "0", "0", "0", "0", "0", "0", "3",
      "]", "]", "\"", ",", " ", "\"", "[", "[", "[", "\\", "\"", "H", "e", "l", "l", "o", " ", "t",
      "h", "e", "r", "e", "\\", "\"", ",", " ", "t", "r", "u", "e", ",", " ", "\\", "\"", "P", "r",
      "o", "m", "p", "t", "e", "d", "\\", "\"", "]", ",", " ", "1", "7", "0", "0", "0", "0", "0",
      "0", "0", "0", "0", "0", "0", "0", "0", "0", "]", "]", "\"", "]">>

\* some text
\* 'hello'
BODY_PLAIN ==
    <<"h", "e", "l", "l", "o">>

SID == <<"s", "1">>

\* an entry: the f.sid parameter of request.url (optional), and response.content
HarEntry(f_sid, mimeType, encoding, body) ==
    [f_sid |-> f_sid,
     content |-> [mimeType |-> mimeType, encoding |-> encoding, text |-> body]]

HarEntries ==
    <<HarEntry(<<SID>>, MIME_JSON, "", <<BODY_DIRECT>>),
      HarEntry(<<SID>>, MIME_JSON, "", <<BODY_STRINGIFIED>>),
      HarEntry(<<>>, MIME_JS, "", <<BODY_TWO_LEVEL>>),
      HarEntry(<<SID>>, MIME_JSON, "", <<BODY_INVALID>>),
      HarEntry(<<SID>>, MIME_JSON, "", <<BODY_HUGE>>),
      HarEntry(<<>>, MIME_HTML, "", <<BODY_HTML>>),
      HarEntry(<<SID>>, MIME_JSON, "", <<BODY_STREAM>>),
      HarEntry(<<SID>>, MIME_JSON, "base64", <<BODY_BASE64>>),
      HarEntry(<<SID>>, MIME_JSON, "base64", <<BODY_BAD_BASE64>>),
      HarEntry(<<>>, MIME_HTML, "", <<BODY_HTML_HUGE>>),
      HarEntry(<<SID>>, MIME_JSON, "", <<BODY_REPEATED>>),
      HarEntry(<<>>, MIME_PNG, "", <<BODY_PLAIN>>),
      HarEntry(<<SID>>, MIME_JSON, "", <<>>)>>

\* the index of the entry with this body
EntryOf(body) == CHOOSE e \in 1..Len(HarEntries) : HarEntries[e].content.text = <<body>>

----------------------------------------------------------------------------
(* parse_har_file *)

MaxEntries == 2

\* Python compares str by code point; a date holds digits and "." only
DateCharOrd(c) == IF c = "." THEN 0 ELSE 1 + DigitVal(c)

StrLess(a, b) ==
    \E j \in 1..(Len(a) + 1) :
        /\ j <= Len(b)
        /\ \A h \in 1..(j - 1) : a[h] = b[h]
        /\ (j = Len(a) + 1 \/ DateCharOrd(a[j]) < DateCharOrd(b[j]))

\* list.sort(key=lambda x: x['date']): stable, ascending
RECURSIVE SortByDate(_)
SortByDate(recs) ==
    IF recs = <<>> THEN <<>>
    ELSE LET sorted == SortByDate(SubSeq(recs, 1, Len(recs) - 1))
             r == recs[Len(recs)]
             n == Cardinality({j \in 1..Len(sorted) : ~StrLess(r.date, sorted[j].date)})
         IN  SubSeq(sorted, 1, n) \o <<r>> \o SubSeq(sorted, n + 1, Len(sorted))

\* the loop over the documents of one body: whitespace is skipped, one document
\* is decoded and scanned, and the loop ends at the end of the text or at the
\* first JSONDecodeError
RECURSIVE DecodeDocuments(_, _, _, _), ScanDocument(_, _, _, _), NextDocument(_, _, _, _)
DecodeDocuments(s, pos, recs, metadata) ==
    IF RunEnd(s, pos, PyWhitespace) > Len(s) THEN Returned(recs)
    ELSE ScanDocument(s, raw_decode(s, RunEnd(s, pos, PyWhitespace)), recs, metadata)

\* d is what raw_decode gave: a JSONDecodeError breaks the loop
ScanDocument(s, d, recs, metadata) ==
    IF ~d.ok THEN Returned(recs)
    ELSE NextDocument(s, d.end, scan_for_nested_data(d.val, recs, metadata), metadata)

\* r is what the scan handed back: any other exception leaves the loop
NextDocument(s, pos, r, metadata) ==
    IF r.raised THEN r ELSE DecodeDocuments(s, pos, r.recs, metadata)

\* the branch of a JSON response
JsonResponse(text_content, recs, metadata) ==
    LET stripped_text == strip_json_prefix(text_content)
    IN  IF stripped_text # <<>> THEN DecodeDocuments(stripped_text, 1, recs, metadata)
        ELSE Returned(recs)

Entry == HarEntries[entries[i + 1]]
TextContent == decode_har_entry_content(Entry.content)
Metadata == [entry_index |-> i, session_id |-> Entry.f_sid]
IsJsonResponse(content) ==
    contains(content.mimeType, APPLICATION_JSON) \/ contains(content.mimeType, TEXT_JAVASCRIPT)
IsHtmlResponse(content) == contains(content.mimeType, TEXT_HTML)

Idle == UNCHANGED <<payload_json, text, once, twice, records, sessions,
                    current_session, last_ts, k, calls>>

\* `if not text_content: continue`
SkipEntry ==
    /\ pc = "entries" /\ i < Len(entries)
    /\ ~Truthy(TextContent)
    /\ i' = i + 1
    /\ UNCHANGED <<entries, recovered_records, pc>>
    /\ Idle

\* the end of a loop turn whose branch handed back r: an exception that the
\* loop does not catch leaves parse_har_file
EntryDone(r) ==
    /\ recovered_records' = r.recs
    /\ pc' = IF r.raised THEN "raised" ELSE pc
    /\ i' = IF r.raised THEN i ELSE i + 1

\* a JSON response
JsonEntry ==
    /\ pc = "entries" /\ i < Len(entries)
    /\ Truthy(TextContent)
    /\ IsJsonResponse(Entry.content)
    /\ EntryDone(JsonResponse(TextContent[1], recovered_records, Metadata))
    /\ UNCHANGED entries
    /\ Idle

HtmlEntry ==
    /\ pc = "entries" /\ i < Len(entries)
    /\ Truthy(TextContent)
    /\ ~IsJsonResponse(Entry.content)
    /\ IsHtmlResponse(Entry.content)
    /\ recovered_records' =
           extract_json_from_html(TextContent[1], recovered_records, Metadata)
    /\ i' = i + 1
    /\ UNCHANGED <<entries, pc>>
    /\ Idle

OtherEntry ==
    /\ pc = "entries" /\ i < Len(entries)
    /\ Truthy(TextContent)
    /\ ~IsJsonResponse(Entry.content)
    /\ ~IsHtmlResponse(Entry.content)
    /\ i' = i + 1
    /\ UNCHANGED <<entries, recovered_records, pc>>
    /\ Idle

\* after the loop: the records are sorted by date and returned
ReturnRecords ==
    /\ pc = "entries" /\ i = Len(entries)
    /\ recovered_records' = SortByDate(recovered_records)
    /\ pc' = "returned"
    /\ UNCHANGED <<entries, i>>
    /\ Idle

Logs == UNION {[1..n -> 1..Len(HarEntries)] : n \in 0..MaxEntries}

Init ==
    /\ entries \in Logs
    /\ i = 0 /\ recovered_records = <<>> /\ pc = "entries"
    /\ payload_json = 0 /\ text = <<>> /\ once = <<>> /\ twice = <<>>
    /\ records = <<>> /\ sessions = <<>> /\ current_session = <<>>
    /\ last_ts = [second |-> 0, microsecond |-> 0] /\ k = 0 /\ calls = 0

Next == SkipEntry \/ JsonEntry \/ HtmlEntry \/ OtherEntry \/ ReturnRecords

Spec == Init /\ [][Next]_vars
----------------------------------------------------------------------------
(* process_inner_payload on one array after another *)

\* a record
\* '[["Hi", true, "Prompted"], 1700000000000000]'
PAYLOAD_PLAIN ==
    <<"[", "[", "\"", "H", "i", "\"", ",", " ", "t", "r", "u", "e", ",", " ", "\"", "P", "r", "o",
      "m", "p", "t", "e", "d", "\"", "]", ",", " ", "1", "7", "0", "0", "0", "0", "0", "0", "0",
      "0", "0", "0", "0", "0", "0", "0", "]">>

\* a prompt with whitespace around it, a timestamp with a microsecond
\* '[[" Hi ", true, "Prompted"], 1700000000000001]'
PAYLOAD_PADDED ==
    <<"[", "[", "\"", " ", "H", "i", " ", "\"", ",", " ", "t", "r", "u", "e", ",", " ", "\"", "P",
      "r", "o", "m", "p", "t", "e", "d", "\"", "]", ",", " ", "1", "7", "0", "0", "0", "0", "0",
      "0", "0", "0", "0", "0", "0", "0", "0", "1", "]">>

\* a prompt of whitespace only
\* '[["  ", true, "Prompted"], 1700000000000000]'
PAYLOAD_BLANK ==
    <<"[", "[", "\"", " ", " ", "\"", ",", " ", "t", "r", "u", "e", ",", " ", "\"", "P", "r", "o",
      "m", "p", "t", "e", "d", "\"", "]", ",", " ", "1", "7", "0", "0", "0", "0", "0", "0", "0",
      "0", "0", "0", "0", "0", "0", "0", "]">>

\* an empty prompt before a second candidate
\* '[["", true, "Prompted"], ["Yo", true, "Prompted"], 1700000000000000]'
PAYLOAD_EMPTY_FIRST ==
    <<"[", "[", "\"", "\"", ",", " ", "t", "r", "u", "e", ",", " ", "\"", "P", "r", "o", "m", "p",
      "t", "e", "d", "\"", "]", ",", " ", "[", "\"", "Y", "o", "\"", ",", " ", "t", "r", "u", "e",
      ",", " ", "\"", "P", "r", "o", "m", "p", "t", "e", "d", "\"", "]", ",", " ", "1", "7", "0",
      "0", "0", "0", "0", "0", "0", "0", "0", "0", "0", "0", "0", "0", "]">>

\* a millisecond integer before the microsecond one
\* '[1650000000000, ["Hi", true, "Prompted"], 1700000000000000]'
PAYLOAD_MS_FIRST ==
    <<"[", "1", "6", "5", "0", "0", "0", "0", "0", "0", "0", "0", "0", "0", ",", " ", "[", "\"",
      "H", "i", "\"", ",", " ", "t", "r", "u", "e", ",", " ", "\"", "P", "r", "o", "m", "p", "t",
      "e", "d", "\"", "]", ",", " ", "1", "7", "0", "0", "0", "0", "0", "0", "0", "0", "0", "0",
      "0", "0", "0", "0", "]">>

\* a record holding a second record
\* '[["Hi", true, "Prompted"], 1700000000000000, [["Yo", true, "Prompted"], 1700007200000000]]'
PAYLOAD_NESTED ==
    <<"[", "[", "\"", "H", "i", "\"", ",", " ", "t", "r", "u", "e", ",", " ", "\"", "P", "r", "o",
      "m", "p", "t", "e", "d", "\"", "]", ",", " ", "1", "7", "0", "0", "0", "0", "0", "0", "0",
      "0", "0", "0", "0", "0", "0", "0", ",", " ", "[", "[", "\"", "Y", "o", "\"", ",", " ", "t",
      "r", "u", "e", ",", " ", "\"", "P", "r", "o", "m", "p", "t", "e", "d", "\"", "]", ",", " ",
      "1", "7", "0", "0", "0", "0", "7", "2", "0", "0", "0", "0", "0", "0", "0", "0", "]", "]">>

\* a record without a timestamp, holding a complete one
\* '[["Hi", true, "Prompted"], "no timestamp", [["Yo", true, "Prompted"], 1700000000000000]]'
PAYLOAD_NO_TS_NESTED ==
    <<"[", "[", "\"", "H", "i", "\"", ",", " ", "t", "r", "u", "e", ",", " ", "\"", "P", "r", "o",
      "m", "p", "t", "e", "d", "\"", "]", ",", " ", "\"", "n", "o", " ", "t", "i", "m", "e", "s",
      "t", "a", "m", "p", "\"", ",", " ", "[", "[", "\"", "Y", "o", "\"", ",", " ", "t", "r", "u",
      "e", ",", " ", "\"", "P", "r", "o", "m", "p", "t", "e", "d", "\"", "]", ",", " ", "1", "7",
      "0", "0", "0", "0", "0", "0", "0", "0", "0", "0", "0", "0", "0", "0", "]", "]">>

\* an array of two records
\* '[[["Hi", true, "Prompted"], 1700000000000000], [["Yo", true, "Prompted"], 1700003600000000]]'
PAYLOAD_TWO ==
    <<"[", "[", "[", "\"", "H", "i", "\"", ",", " ", "t", "r", "u", "e", ",", " ", "\"", "P", "r",
      "o", "m", "p", "t", "e", "d", "\"", "]", ",", " ", "1", "7", "0", "0", "0", "0", "0", "0",
      "0", "0", "0", "0", "0", "0", "0", "0", "]", ",", " ", "[", "[", "\"", "Y", "o", "\"", ",",
      " ", "t", "r", "u", "e", ",", " ", "\"", "P", "r", "o", "m", "p", "t", "e", "d", "\"", "]",
      ",", " ", "1", "7", "0", "0", "0", "0", "3", "6", "0", "0", "0", "0", "0", "0", "0", "0",
      "]", "]">>

\* an integer past year 9999
\* '[["Hi", true, "Prompted"], 1000000000000000000]'
PAYLOAD_HUGE ==
    <<"[", "[", "\"", "H", "i", "\"", ",", " ", "t", "r", "u", "e", ",", " ", "\"", "P", "r", "o",
      "m", "p", "t", "e", "d", "\"", "]", ",", " ", "1", "0", "0", "0", "0", "0", "0", "0", "0",
      "0", "0", "0", "0", "0", "0", "0", "0", "0", "0", "]">>

\* two candidate prompts
\* '[["Yo", true, "Prompted"], ["Hi", true, "Prompted"], 1700000000000000]'
PAYLOAD_TWO_PROMPTS ==
    <<"[", "[", "\"", "Y", "o", "\"", ",", " ", "t", "r", "u", "e", ",", " ", "\"", "P", "r", "o",
      "m", "p", "t", "e", "d", "\"", "]", ",", " ", "[", "\"", "H", "i", "\"", ",", " ", "t", "r",
      "u", "e", ",", " ", "\"", "P", "r", "o", "m", "p", "t", "e", "d", "\"", "]", ",", " ", "1",
      "7", "0", "0", "0", "0", "0", "0", "0", "0", "0", "0", "0", "0", "0", "0", "]">>

\* a small integer first, a response, the two ids
\* '[5, ["Hi", true, "Prompted"], 1700000000000000, null, [[[null, "<p>ok</p>"]]], "a", "b"]'
PAYLOAD_FULL ==
    <<"[", "5", ",", " ", "[", "\"", "H", "i", "\"", ",", " ", "t", "r", "u", "e", ",", " ", "\"",
      "P", "r", "o", "m", "p", "t", "e", "d", "\"", "]", ",", " ", "1", "7", "0", "0", "0", "0",
      "0", "0", "0", "0", "0", "0", "0", "0", "0", "0", ",", " ", "n", "u", "l", "l", ",", " ",
      "[", "[", "[", "n", "u", "l", "l", ",", " ", "\"", "<", "p", ">", "o", "k", "<", "/", "p",
      ">", "\"", "]", "]", "]", ",", " ", "\"", "a", "\"", ",", " ", "\"", "b", "\"", "]">>

\* a millisecond timestamp
\* '[["Hi", 1, "Prompted", 4], 1700000000123]'
PAYLOAD_MS ==
    <<"[", "[", "\"", "H", "i", "\"", ",", " ", "1", ",", " ", "\"", "P", "r", "o", "m", "p", "t",
      "e", "d", "\"", ",", " ", "4", "]", ",", " ", "1", "7", "0", "0", "0", "0", "0", "0", "0",
      "0", "1", "2", "3", "]">>

\* a candidate whose first element is no str
\* '[[7, true, "Prompted"], 1700000000000000]'
PAYLOAD_INT_PROMPT ==
    <<"[", "[", "7", ",", " ", "t", "r", "u", "e", ",", " ", "\"", "P", "r", "o", "m", "p", "t",
      "e", "d", "\"", "]", ",", " ", "1", "7", "0", "0", "0", "0", "0", "0", "0", "0", "0", "0",
      "0", "0", "0", "0", "]">>

\* the inner array alone
\* '["Hi", true, "Prompted"]'
PAYLOAD_BARE ==
    <<"[", "\"", "H", "i", "\"", ",", " ", "t", "r", "u", "e", ",", " ", "\"", "P", "r", "o", "m",
      "p", "t", "e", "d", "\"", "]">>

\* no array
\* '{"a": [["Hi", true, "Prompted"], 1700000000000000]}'
PAYLOAD_DICT ==
    <<"{", "\"", "a", "\"", ":", " ", "[", "[", "\"", "H", "i", "\"", ",", " ", "t", "r", "u", "e",
      ",", " ", "\"", "P", "r", "o", "m", "p", "t", "e", "d", "\"", "]", ",", " ", "1", "7", "0",
      "0", "0", "0", "0", "0", "0", "0", "0", "0", "0", "0", "0", "0", "]", "}">>

\* a microsecond integer before a millisecond one
\* '[["Hi", true, "Prompted"], 1700000000000002, 1650000000000]'
PAYLOAD_US_FIRST ==
    <<"[", "[", "\"", "H", "i", "\"", ",", " ", "t", "r", "u", "e", ",", " ", "\"", "P", "r",
      "o", "m", "p", "t", "e", "d", "\"", "]", ",", " ", "1", "7", "0", "0", "0", "0", "0", "0",
      "0", "0", "0", "0", "0", "0", "0", "2", ",", " ", "1", "6", "5", "0", "0", "0", "0", "0",
      "0", "0", "0", "0", "0", "]">>

Payloads ==
    <<PAYLOAD_PLAIN,
      PAYLOAD_PADDED,
      PAYLOAD_BLANK,
      PAYLOAD_EMPTY_FIRST,
      PAYLOAD_MS_FIRST,
      PAYLOAD_NESTED,
      PAYLOAD_NO_TS_NESTED,
      PAYLOAD_TWO,
      PAYLOAD_HUGE,
      PAYLOAD_TWO_PROMPTS,
      PAYLOAD_FULL,
      PAYLOAD_MS,
      PAYLOAD_INT_PROMPT,
      PAYLOAD_BARE,
      PAYLOAD_DICT,
      PAYLOAD_US_FIRST>>

MaxCalls == 2

Payload(p) == json_loads(Payloads[p]).val

CALL_METADATA == [entry_index |-> 0, session_id |-> <<>>]

\* the call handed back r, or an exception left it
CallDone(r) ==
    /\ recovered_records' = r.recs
    /\ pc' = IF r.raised THEN "raised" ELSE pc

\* process_inner_payload(Payload(p), recovered_records, metadata)
ProcessInnerPayload(p) ==
    /\ pc = "extract" /\ calls < MaxCalls
    /\ CallDone(process_inner_payload(Payload(p), recovered_records, CALL_METADATA))
    /\ payload_json' = p
    /\ calls' = calls + 1
    /\ UNCHANGED <<entries, i, text, once, twice, records, sessions,
                   current_session, last_ts, k>>

InitExtract ==
    /\ entries = <<>> /\ i = 0 /\ recovered_records = <<>> /\ pc = "extract"
    /\ payload_json = 0 /\ text = <<>> /\ once = <<>> /\ twice = <<>>
    /\ records = <<>> /\ sessions = <<>> /\ current_session = <<>>
    /\ last_ts = [second |-> 0, microsecond |-> 0] /\ k = 0 /\ calls = 0

NextExtract == \E p \in 1..Len(Payloads) : ProcessInnerPayload(p)

SpecExtract == InitExtract /\ [][NextExtract]_vars

----------------------------------------------------------------------------
(* strip_json_prefix applied once and twice *)

MaxSegments == 4

\* the pieces the input texts are put together from
Segments == <<ANTI_HIJACK, <<")">>, <<" ">>, <<"1">>, <<"[">>, <<"{">>, <<"\"">>, <<"x">>>>

RECURSIVE Concat(_)
Concat(pieces) ==
    IF pieces = <<>> THEN <<>> ELSE Head(pieces) \o Concat(Tail(pieces))

Texts ==
    {Concat([j \in DOMAIN f |-> Segments[f[j]]]) :
        f \in UNION {[1..n -> 1..Len(Segments)] : n \in 0..MaxSegments}}

StripOnce ==
    /\ pc = "strip"
    /\ once' = strip_json_prefix(text)
    /\ pc' = "once"
    /\ UNCHANGED <<entries, i, recovered_records, payload_json, text, twice, records,
                   sessions, current_session, last_ts, k, calls>>

StripTwice ==
    /\ pc = "once"
    /\ twice' = strip_json_prefix(once)
    /\ pc' = "twice"
    /\ UNCHANGED <<entries, i, recovered_records, payload_json, text, once, records,
                   sessions, current_session, last_ts, k, calls>>

InitStrip ==
    /\ text \in Texts
    /\ entries = <<>> /\ i = 0 /\ recovered_records = <<>> /\ pc = "strip"
    /\ payload_json = 0 /\ once = <<>> /\ twice = <<>>
    /\ records = <<>> /\ sessions = <<>> /\ current_session = <<>>
    /\ last_ts = [second |-> 0, microsecond |-> 0] /\ k = 0 /\ calls = 0

NextStrip == StripOnce \/ StripTwice

SpecStrip == InitStrip /\ [][NextStrip]_vars

----------------------------------------------------------------------------
(* analyze_sessions *)

MaxRecords == 3

TIME_THRESHOLD_SEC == 7200

RECURSIVE ToNat(_)
ToNat(digits) ==
    IF digits = <<>> THEN 0
    ELSE 10 * ToNat(SubSeq(digits, 1, Len(digits) - 1)) + DigitVal(digits[Len(digits)])

\* datetime.fromisoformat(date).timestamp(): the seconds and the microseconds
\* of the instant (the float holds both exactly at this magnitude).  The local
\* time zone is taken to keep one UTC offset, so that the difference of two
\* such values is the difference of the two dates.
timestamp_of(date) ==
    [second |-> ToNat(SubSeq(date, 1, 12)),
     microsecond |-> IF Len(date) > 12 THEN ToNat(SubSeq(date, 14, Len(date))) ELSE 0]

\* a faulty variant: a gap equal to the threshold starts a session too
StartsSession_at_threshold(ts, last) ==
    \/ last = [second |-> 0, microsecond |-> 0]
    \/ ts.second - last.second > TIME_THRESHOLD_SEC
    \/ /\ ts.second - last.second = TIME_THRESHOLD_SEC
       /\ ts.microsecond >= last.microsecond

\* last_ts == 0 or (ts - last_ts) > TIME_THRESHOLD_SEC
StartsSession(ts, last) ==
    \/ last = [second |-> 0, microsecond |-> 0]
    \/ ts.second - last.second > TIME_THRESHOLD_SEC
    \/ /\ ts.second - last.second = TIME_THRESHOLD_SEC
       /\ ts.microsecond > last.microsecond

Waiting == UNCHANGED <<entries, i, recovered_records, payload_json, text, once, twice, calls>>

\* records.sort(key=lambda x: x['date'])
SortRecords ==
    /\ pc = "sort"
    /\ records' = SortByDate(records)
    /\ pc' = "cluster"
    /\ UNCHANGED <<sessions, current_session, last_ts, k>>
    /\ Waiting

\* one turn of `for r in records`
ClusterRecord ==
    /\ pc = "cluster" /\ k < Len(records)
    /\ LET r  == records[k + 1]
           ts == timestamp_of(r.date)
       IN  /\ IF StartsSession(ts, last_ts)
              THEN /\ sessions' = IF current_session # <<>>
                                  THEN Append(sessions, current_session) ELSE sessions
                   /\ current_session' = <<r>>
              ELSE /\ sessions' = sessions
                   /\ current_session' = Append(current_session, r)
           /\ last_ts' = ts
    /\ k' = k + 1
    /\ UNCHANGED <<records, pc>>
    /\ Waiting

\* after the loop the open session is closed and the sessions are returned
ReturnSessions ==
    /\ pc = "cluster" /\ k = Len(records)
    /\ sessions' = IF current_session # <<>>
                   THEN Append(sessions, current_session) ELSE sessions
    /\ pc' = "returned"
    /\ UNCHANGED <<records, current_session, last_ts, k>>
    /\ Waiting

\* the turns analyze_sessions is given: microsecond epoch integers as the
\* extractor reads them, each with a prompt
TURN_EPOCH == <<"1", "7", "0", "0", "0", "0", "0", "0", "0", "0", "0", "0", "0", "0", "0", "0">>
TURN_HOUR == <<"1", "7", "0", "0", "0", "0", "3", "6", "0", "0", "0", "0", "0", "0", "0", "0">>
TURN_TWO_HOURS == <<"1", "7", "0", "0", "0", "0", "7", "2", "0", "0", "0", "0", "0", "0", "0", "0">>
TURN_TWO_HOURS_1 == <<"1", "7", "0", "0", "0", "0", "7", "2", "0", "0", "0", "0", "0", "0", "0", "1">>
TURN_FOUR_HOURS_1 == <<"1", "7", "0", "0", "0", "1", "4", "4", "0", "0", "0", "0", "0", "0", "0", "1">>

Turn(epoch, prompt) == [date |-> isoformat(fromtimestamp(epoch, 6)), prompt |-> prompt]

Turns ==
    <<Turn(TURN_EPOCH, HI), Turn(TURN_EPOCH, YO), Turn(TURN_HOUR, HI),
      Turn(TURN_TWO_HOURS, HI), Turn(TURN_TWO_HOURS_1, HI), Turn(TURN_FOUR_HOURS_1, HI)>>

\* the collections without a repeated turn, in any order
Collections ==
    {[j \in DOMAIN f |-> Turns[f[j]]] :
        f \in {g \in UNION {[1..n -> 1..Len(Turns)] : n \in 1..MaxRecords} :
                  \A a, b \in DOMAIN g : a # b => g[a] # g[b]}}

InitSessions ==
    /\ records \in Collections
    /\ entries = <<>> /\ i = 0 /\ recovered_records = <<>> /\ pc = "sort"
    /\ payload_json = 0 /\ text = <<>> /\ once = <<>> /\ twice = <<>>
    /\ sessions = <<>> /\ current_session = <<>>
    /\ last_ts = [second |-> 0, microsecond |-> 0] /\ k = 0 /\ calls = 0

NextSessions == SortRecords \/ ClusterRecord \/ ReturnSessions

SpecSessions == InitSessions /\ [][NextSessions]_vars

----------------------------------------------------------------------------
(* the claims about parse_har_file, checked under Spec *)

Range(s) == {s[j] : j \in DOMAIN s}

SamePair(a, b) == a.date = b.date /\ a.prompt = b.prompt

NoTwoRecordsShareAPair ==
    \A a, b \in 1..Len(recovered_records) :
        a # b => ~SamePair(recovered_records[a], recovered_records[b])

\* the Records the entry under the loop yields when the collection is empty
EntryYield ==
    IF ~Truthy(TextContent) THEN <<>>
    ELSE IF IsJsonResponse(Entry.content)
         THEN JsonResponse(TextContent[1], <<>>, Metadata).recs
    ELSE IF IsHtmlResponse(Entry.content)
         THEN extract_json_from_html(TextContent[1], <<>>, Metadata)
    ELSE <<>>

\* an entry all of whose Records are in the collection already leaves it as it is
DuplicatesAreDropped ==
    (/\ pc = "entries" /\ i < Len(entries)
     /\ \A y \in Range(EntryYield) : \E r \in Range(recovered_records) : SamePair(r, y))
        => recovered_records' = recovered_records

\* C1: at every point of the extraction no two Records of the collection have
\* both the same timestamp and the same prompt, and an entry that yields only
\* Records whose (timestamp, prompt) pair is in the collection already leaves
\* the collection unchanged, whether the Records come from a JSON body or from
\* a script of an HTML page.
C1_Deduplicated == []NoTwoRecordsShareAPair /\ [][DuplicatesAreDropped]_vars

\* C1: the same turn was met in a JSON body and in an HTML page and kept once
C1_SameTurnMetTwice ==
    /\ pc = "returned"
    /\ entries = <<EntryOf(BODY_STRINGIFIED), EntryOf(BODY_HTML)>>
    /\ Len(recovered_records) = 1

\* the date of the turn of the example, 1700000000000000 microseconds
DATE_HELLO_THERE == <<"0", "0", "1", "7", "0", "0", "0", "0", "0", "0", "0", "0">>

OneRecordHelloThere ==
    /\ Len(recovered_records) = 1
    /\ recovered_records[1].prompt = HELLO_THERE
    /\ recovered_records[1].date = DATE_HELLO_THERE

\* C3 as the specification states it: the log of the example, whose document
\* holds the record as an array, yields exactly one Record.
C3_DirectDocumentYieldsOneRecord ==
    (pc = "returned" /\ entries = <<EntryOf(BODY_DIRECT)>>) => OneRecordHelloThere

\* C3: the log of the example, whose document holds the record as an array and
\* not as a string, yields no Record at all, because only a string element
\* that looks like a nested array is handed to the extractor; the same record
\* written as a string element yields exactly one Record with the prompt
\* "Hello there" and the timestamp 1700000000 seconds.
C3_OnlyStringifiedDocumentYieldsRecord ==
    /\ (pc = "returned" /\ entries = <<EntryOf(BODY_DIRECT)>>)
           => recovered_records = <<>>
    /\ (pc = "returned" /\ entries = <<EntryOf(BODY_STRINGIFIED)>>)
           => OneRecordHelloThere

\* C3: the log of the example has been parsed to its end and gave nothing
C3_ExampleParsed ==
    /\ pc = "returned"
    /\ entries = <<EntryOf(BODY_DIRECT)>>
    /\ i = 1
    /\ recovered_records = <<>>

\* C4 as the specification states it: no transaction ends the batch, the loop
\* always reaches the transactions after it.
C4_BatchNeverAborted == pc # "raised"

HasPrompt(prompt) == \E r \in Range(recovered_records) : r.prompt = prompt

\* C9 as the specification states it: a record stringified twice, a string
\* inside a string fragment, is recovered.
C9_TwoLevelRecovered ==
    (pc = "returned" /\ entries = <<EntryOf(BODY_TWO_LEVEL)>>) => HasPrompt(DEEP)

\* C9: a string fragment is decoded once and the decoded value is handed to
\* the extractor only, the scan for string fragments does not go on inside it:
\* a record stringified once is recovered as soon as its transaction has been
\* processed, a record stringified twice is never recovered.
C9_FragmentDecodedOnce ==
    /\ ~HasPrompt(DEEP)
    /\ (i >= 1 /\ entries[1] = EntryOf(BODY_STRINGIFIED)) => HasPrompt(HELLO_THERE)

\* C9: a log with the record stringified twice and one stringified once
C9_BothFragmentsParsed ==
    /\ pc = "returned"
    /\ entries = <<EntryOf(BODY_TWO_LEVEL), EntryOf(BODY_STRINGIFIED)>>
    /\ Len(recovered_records) = 1

----------------------------------------------------------------------------
(* the claims about process_inner_payload, checked under SpecExtract *)

\* the array of the last call
LastPayload == Payload(payload_json).v

PromptCandidates(a) == {j \in 1..Len(a) : IsPromptItem(a[j])}

MicrosecondIntegers(a) ==
    {j \in 1..Len(a) : a[j].k = "int" /\ IntGreater(a[j].v, MICROSECOND_FLOOR)}

IntegersAboveFloor(a) ==
    {j \in 1..Len(a) : a[j].k = "int" /\ IntGreater(a[j].v, MILLISECOND_FLOOR)}

\* the microseconds since the epoch that a date of a Record stands for
MicrosecondsOf(date) ==
    LET first == SetMin({12} \cup {j \in 1..12 : date[j] # "0"})
    IN  SubSeq(date, first, 12)
            \o (IF Len(date) > 12 THEN SubSeq(date, 14, 19) ELSE Zeros(6))

HoldsRecord(prompt, micros) ==
    \E r \in Range(recovered_records) :
        r.prompt = strip(prompt) /\ MicrosecondsOf(r.date) = micros

C8_NoEmptyPrompt == \A r \in Range(recovered_records) : r.prompt # <<>>

\* the array matches: extract_prompt finds a prompt that is not empty
Matches(payload) == payload.k = "list" /\ Truthy(extract_prompt(payload.v))

RECURSIVE ElementByElement(_, _, _)
ElementByElement(items, j, recs) ==
    IF j > Len(items) THEN recs
    ELSE LET r == process_inner_payload(items[j], recs, CALL_METADATA)
         IN  IF r.raised THEN r.recs ELSE ElementByElement(items, j + 1, r.recs)

MatchedArrayGivesAtMostOne ==
    \A p \in 1..Len(Payloads) :
        (calls' = calls + 1 /\ payload_json' = p /\ Matches(Payload(p))) =>
            LET a == Payload(p).v
            IN  /\ \/ recovered_records' = recovered_records
                   \/ /\ Len(recovered_records') = Len(recovered_records) + 1
                      /\ SubSeq(recovered_records', 1, Len(recovered_records))
                             = recovered_records
                      /\ recovered_records'[Len(recovered_records')].prompt
                             = strip(a[SetMin(PromptCandidates(a))].v[1].v)
                /\ IntegersAboveFloor(a) = {} => recovered_records' = recovered_records

OtherArrayIsRecursedInto ==
    \A p \in 1..Len(Payloads) :
        (/\ calls' = calls + 1 /\ payload_json' = p
         /\ Payload(p).k = "list" /\ ~Matches(Payload(p))) =>
            recovered_records' = ElementByElement(Payload(p).v, 1, recovered_records)

----------------------------------------------------------------------------
(* the claims about strip_json_prefix, checked under SpecStrip *)

\* C6 as the specification states it: the second application changes nothing.
C6_Idempotent == pc = "twice" => twice = once

\* C6: applying strip_json_prefix to its own result changes nothing exactly
\* when that result does not start with the anti-hijacking literal; a result
\* that starts with the literal (the text had whitespace before the literal,
\* or the literal twice in a row) is changed by the second application.
C6_IdempotentUnlessLiteralRemains ==
    pc = "twice" => (twice = once <=> ~startswith(once, ANTI_HIJACK))

\* C6: a framing of literal, digit run and whitespace has been stripped, and
\* stripped again without effect
C6_FramingStrippedTwice ==
    /\ pc = "twice"
    /\ text = ANTI_HIJACK \o <<"1", " ", "[">>
    /\ once = <<"[">>
    /\ twice = <<"[">>

\* the text starts with a digit run, whitespace, and then `[` or `{`
DigitsWhitespaceBracket(t) ==
    LET d == RunEnd(t, 1, DigitSet)
        b == RunEnd(t, d, PyWhitespace)
    IN  d > 1 /\ b > d /\ b <= Len(t) /\ t[b] \in {"[", "{"}

\* C7 as the specification states it: a text without the literal and without
\* a length prefix of digits, whitespace and bracket is returned unchanged.
C7_UnchangedWithoutFraming ==
    (pc # "strip" /\ ~startswith(text, ANTI_HIJACK) /\ ~DigitsWhitespaceBracket(text))
        => once = text

\* C7: a text that does not start with the literal is returned with the
\* whitespace at its two ends removed, unless the text so trimmed starts with
\* a digit run followed by any whitespace, none included, and then by `[`, `{`
\* or `"`; in that case the result is the trimmed text from that character on.
\* So a digit run followed directly by a bracket is removed, and a text that
\* has no such start and no whitespace at its ends is returned unchanged.
C7_TrimmedAndLengthPrefixRemoved ==
    (pc # "strip" /\ ~startswith(text, ANTI_HIJACK)) =>
        LET t == strip(text)
            d == RunEnd(t, 1, DigitSet)
            b == RunEnd(t, d, PyWhitespace)
        IN  IF d > 1 /\ b <= Len(t) /\ t[b] \in {"[", "{", "\""}
            THEN once = SubSeq(t, b, Len(t))
            ELSE once = t

\* C7: a digit run directly followed by a bracket has been removed
C7_DigitsBeforeBracketRemoved ==
    /\ pc = "once"
    /\ text = <<"1", "[", "x">>
    /\ once = <<"[", "x">>

----------------------------------------------------------------------------
(* the claim about analyze_sessions, checked under SpecSessions *)

\* the later instant is more than the threshold after the earlier one
GapExceedsThreshold(earlier, later) ==
    LET a == timestamp_of(earlier.date)
        b == timestamp_of(later.date)
    IN  \/ b.second - a.second > TIME_THRESHOLD_SEC
        \/ (b.second - a.second = TIME_THRESHOLD_SEC /\ b.microsecond > a.microsecond)

\* the positions of the sorted sequence after which a session ends
SessionEnds ==
    {Len(Concat(SubSeq(sessions, 1, s))) : s \in 1..(Len(sessions) - 1)}

SessionsPartition ==
    pc = "returned" =>
        /\ Concat(sessions) = records
        /\ \A s \in 1..Len(sessions) : sessions[s] # <<>>
        /\ \A j \in 1..(Len(records) - 1) :
               /\ ~StrLess(records[j + 1].date, records[j].date)
               /\ j \in SessionEnds <=> GapExceedsThreshold(records[j], records[j + 1])

\* the sort puts the same Records in ascending order of timestamp
SortKeepsRecords ==
    pc = "sort" =>
        /\ Len(records') = Len(records)
        /\ Range(records') = Range(records)

\* C2: analyze_sessions sorts the Records by timestamp without losing or
\* adding one, and the Sessions it returns, put one after the other, are that
\* sorted sequence: every Record is in exactly one Session, no Session is
\* empty, and a Session ends between two consecutive Records exactly when the
\* later timestamp is more than 7200 seconds after the earlier one (a gap of
\* exactly 7200 seconds does not end it).
C2_SessionsPartitionSortedRecords == []SessionsPartition /\ [][SortKeepsRecords]_vars

\* C2: three Records given out of order, a gap of exactly 7200 seconds inside
\* the first Session and a gap of 7200.000001 seconds before the second
C2_ThresholdGapKeptTogether ==
    /\ pc = "returned"
    /\ Len(sessions) = 2
    /\ Len(sessions[1]) = 2
    /\ sessions[1][1] = Turn(TURN_EPOCH, HI)
    /\ sessions[1][2] = Turn(TURN_TWO_HOURS, HI)
    /\ sessions[2] = <<Turn(TURN_FOUR_HOURS_1, HI)>>
====
